---- MODULE Spec2Model ----
(***************************************************************************)
(* The file-backed collection store of json-db (src/src/db/store.js) and   *)
(* its start-up in jsonDB (index.js).  One JSON file holds a mapping from  *)
(* collection names to arrays of items.  Every operation is an async       *)
(* function: it runs atomically between two awaits and other operations    *)
(* may run while it waits for the file system.  One action of this module  *)
(* is one such piece: the completion of a file-system call together with   *)
(* the synchronous code that follows it up to the next await.  The routes   *)
(* of src/src/router.js call getAll and create and answer with what these  *)
(* return.  getOne, updateItem and deleteItem are not in this revision of  *)
(* store.js; they are modelled as the documentation of the store describes *)
(* them, in a specification of their own (SpecEdit).                       *)
(***************************************************************************)
EXTENDS Integers, Sequences, FiniteSets, TLC

\* ------------------------------------------------------------------ bounds
MaxCalls == 2        \* create and init calls in one behaviour
MaxFaults == 1       \* file-system errors on a readable, writable file

Colls == {"users", "posts"}

\* ------------------------------------------------------------- JSON values
\* The id field of an item or of a payload: a number, a value that is not a
\* number (a string), or no id field at all.
Num(n) == [t |-> "num", v |-> n]
Str == [t |-> "str", v |-> 0]
NoId == [t |-> "none", v |-> 0]

\* The request bodies: a field a, and for some an id field too.
Payloads ==
    { [id |-> NoId, a |-> 1], [id |-> NoId, a |-> 2], [id |-> Num(1), a |-> 1] }

\* The file: missing, not parsable as JSON, or a document.  A document is the
\* set of its keys and the items of each key (no items for an absent key).
NoItems == [c \in Colls |-> <<>>]
Missing == [k |-> "missing", keys |-> {}, d |-> NoItems]
Invalid == [k |-> "invalid", keys |-> {}, d |-> NoItems]
Doc(keys, d) == [k |-> "doc", keys |-> keys, d |-> d]

VARIABLES
    file,      \* the contents of filePath
    ver,       \* history: the number of modifications of the file so far
    file0,     \* history: the file when the store was constructed
    calls,     \* the create calls in flight, in the order of their reads
    inits,     \* the init calls in flight
    started,   \* history: the number of create and init calls begun so far
    returned,  \* history: per collection, the creates that returned an item
    initWrites,\* history: the writes of init that completed
    last,      \* the latest return of a create or an init
    got,       \* the answer of a getAll that has just returned
    serial,    \* history: no operation began while another was in flight
    plain,     \* history: no create was given a payload with an id field
    faults     \* history: the file-system errors create and init have met

vars == <<file, ver, file0, calls, inits, started, returned, initWrites, last,
          got, serial, plain, faults>>

\* JSON.stringify({}, null, 2): the empty mapping.
EmptyDoc == Doc({}, NoItems)

\* A variant of access that finds no file ever: init would always write.
accessNever(f) == FALSE
\* fs.access(filePath) resolves: it rejects when there is no file.
access(f) == f.k # "missing"

\* read(): fs.readFile and JSON.parse.  It throws when the file is missing or
\* is not JSON, and ioOk = FALSE is a file-system error on a readable file.
read(f, ioOk) ==
    IF ioOk /\ f.k = "doc" THEN [thrown |-> FALSE, db |-> f]
    ELSE [thrown |-> TRUE, db |-> Invalid]

\* A variant of readOrEmpty that goes on with the file's collections after a
\* failed read.
readOrStale(r, f) == Doc(f.keys, f.d)
\* create's try { db = await read() } catch { db = {} }
readOrEmpty(r, f) == IF r.thrown THEN EmptyDoc ELSE r.db

\* db[collection] ?? []
GetColl(db, c) == IF c \in db.keys THEN db.d[c] ELSE <<>>

\* A variant of maybeId for which no id is a number.
maybeIdNever(it) == 0
\* typeof it?.id === "number" ? it.id : 0
maybeId(it) == IF it.id.t = "num" THEN it.id.v ELSE 0

MathMax(x, y) == IF x >= y THEN x ELSE y

\* db[collection].reduce((max, it) => Math.max(max, maybeId), max)
RECURSIVE reduce(_, _)
reduce(items, max) ==
    IF items = <<>> THEN max
    ELSE reduce(Tail(items), MathMax(max, maybeId(Head(items))))

\* A variant of nextId without the + 1.
nextIdNoIncrement(items) == reduce(items, 0)
\* A variant of nextId that looks at the last item alone.
nextIdOfLast(items) ==
    IF Len(items) > 0 THEN maybeId(items[Len(items)]) + 1 ELSE 1
\* const nextId = db[collection].reduce(..., 0) + 1
nextId(items) == reduce(items, 0) + 1

\* The other revision of create:
\* const id = db[collection].length > 0
\*     ? db[collection][db[collection].length - 1].id + 1 : 1
\* JavaScript's + 1 on an id: the next number for a number, a string for a
\* string (concatenation) and NaN for an absent id.
NaN == [t |-> "nan", v |-> 0]
plusOne(id) ==
    IF id.t = "num" THEN Num(id.v + 1) ELSE IF id.t = "str" THEN Str ELSE NaN
nextIdOther(items) ==
    IF Len(items) > 0 THEN plusOne(items[Len(items)].id) ELSE Num(1)

\* { id: nextId, ...data }: the properties of data are copied after id, so an
\* id property of data replaces nextId.
MakeItem(id, data) ==
    [id |-> IF data.id.t = "none" THEN Num(id) ELSE data.id, a |-> data.a]

\* A variant of Push with unshift in the place of push.
PushFront(db, c, item) ==
    Doc(db.keys \cup {c}, [db.d EXCEPT ![c] = <<item>> \o GetColl(db, c)])
\* A variant of Push without db[collection] = db[collection] ?? []: an absent
\* collection stays absent.
PushNoKey(db, c, item) ==
    Doc(db.keys, [db.d EXCEPT ![c] = Append(GetColl(db, c), item)])
\* db[collection] = db[collection] ?? []; db[collection].push(item)
Push(db, c, item) ==
    Doc(db.keys \cup {c}, [db.d EXCEPT ![c] = Append(GetColl(db, c), item)])

\* A variant of createStatus that swallows the failure of the write.
createStatusSoft(written) == "ok"
\* await write(db); return item: a failed write is thrown on to the caller.
createStatus(written) == IF written THEN "ok" ELSE "error"

\* A variant of getAllResult without the catch.
getAllThrowing(r, c) ==
    [thrown |-> r.thrown, items |-> IF r.thrown THEN <<>> ELSE GetColl(r.db, c)]
\* getAll's try { return db[collection] ?? [] } catch { return [] }
getAllResult(r, c) ==
    [thrown |-> FALSE, items |-> IF r.thrown THEN <<>> ELSE GetColl(r.db, c)]

\* An operation is in flight from its first file-system call to its return.
InFlight == calls # <<>> \/ inits # <<>>

\* What a failed fs.writeFile leaves: the old file when the open failed, an
\* empty (truncated) file when the failure came after the open with flag 'w'.
AfterFailedWrite(f, opened) == IF opened THEN Invalid ELSE f

Remove(s, i) == [j \in 1..(Len(s) - 1) |-> IF j < i THEN s[j] ELSE s[j + 1]]

NoItem == [id |-> NoId, a |-> 0]
NoPeer == [set |-> FALSE, coll |-> "users", readOk |-> FALSE, nextId |-> 0,
           item |-> NoItem]
NoCall == [kind |-> "none", coll |-> "users", target |-> NoId,
           data |-> [id |-> NoId, a |-> 0], readOk |-> FALSE,
           pre |-> Missing, rver |-> 0, nextId |-> 0, item |-> NoItem,
           db |-> EmptyDoc, peer |-> NoPeer]

\* History: the calls still in flight that read the file when call did note
\* what call, which has just written, was for and returned.
Overtake(s, call) ==
    [j \in 1..Len(s) |->
        IF s[j].rver = call.rver
        THEN [s[j] EXCEPT !.peer = [set |-> TRUE, coll |-> call.coll,
                                    readOk |-> call.readOk,
                                    nextId |-> call.nextId, item |-> call.item]]
        ELSE s[j]]

\* An HTTP response: its status code, the keys of its JSON body when that is
\* an object, the item under data, and the items when the body is an array.
Response(code, keys, data, items) ==
    [code |-> code, keys |-> keys, data |-> data, items |-> items]
\* No response is sent.
NoResponse == Response(0, {}, NoItem, <<>>)

\* A variant of postResponse without the try and catch: a create that throws
\* leaves the request unanswered.
postResponseNoCatch(status, item) ==
    IF status = "ok" THEN Response(201, {"message", "data"}, item, <<>>)
    ELSE NoResponse
\* router.post: res.status(201).json({ message: 'Created', data: item }), and
\* in the catch res.status(500).json({ error: 'Failed to create item' }).
postResponse(status, item) ==
    IF status = "ok" THEN Response(201, {"message", "data"}, item, <<>>)
    ELSE Response(500, {"error"}, NoItem, <<>>)

\* router.get: res.json(items), status 200; the handler has no catch, so a
\* getAll that threw would leave the request unanswered.
getResponse(res) ==
    IF res.thrown THEN NoResponse ELSE Response(200, {}, NoItem, res.items)

\* What an operation returned: status "ok" with its value or "error" when it
\* threw, the invocation it ends, whether its write completed, the file that
\* write found, the number of the modification it made, and for a create
\* the response of the POST handler that called it.
Return(op, status, call, written, before, v) ==
    [op |-> op, status |-> status, call |-> call, written |-> written,
     before |-> before, wver |-> v,
     resp |-> IF op = "create" THEN postResponse(status, call.item)
              ELSE NoResponse]
NoReturn == Return("none", "ok", NoCall, FALSE, Missing, 0)
\* What a getAll or a getOne answered: the items, for getOne the one item
\* found or none.
NoAnswer == [op |-> "none", coll |-> "users", target |-> NoId,
             readOk |-> FALSE, thrown |-> FALSE, items |-> <<>>,
             pre |-> Missing, resp |-> NoResponse]

\* ----------------------------------------------------------------- actions
\* init(), up to the answer of fs.access: done when the file exists.
InitAccess ==
    /\ started < MaxCalls
    /\ started' = started + 1
    /\ LET call == [NoCall EXCEPT !.pre = file, !.rver = ver]
       IN IF access(file)
          THEN /\ inits' = inits
               /\ last' = Return("init", "ok", call, FALSE, file, ver)
          ELSE /\ inits' = Append(inits, call)
               /\ last' = last
    /\ serial' = (serial /\ ~InFlight)
    /\ got' = NoAnswer
    /\ UNCHANGED <<file, ver, file0, calls, returned, initWrites, plain, faults>>

\* init(): fs.writeFile of the empty mapping completes.
InitWrite(i) ==
    /\ i \in 1..Len(inits)
    /\ file' = EmptyDoc
    /\ ver' = ver + 1
    /\ inits' = Remove(inits, i)
    /\ initWrites' = initWrites + 1
    /\ last' = Return("init", "ok", inits[i], TRUE, file, ver + 1)
    /\ got' = NoAnswer
    /\ UNCHANGED <<file0, calls, started, returned, serial, plain, faults>>

\* init(): fs.writeFile fails and init throws.
InitWriteFail(i, opened) ==
    /\ i \in 1..Len(inits)
    /\ faults < MaxFaults
    /\ faults' = faults + 1
    /\ file' = AfterFailedWrite(file, opened)
    /\ ver' = IF opened THEN ver + 1 ELSE ver
    /\ inits' = Remove(inits, i)
    /\ last' = Return("init", "error", inits[i], FALSE, file, ver')
    /\ got' = NoAnswer
    /\ UNCHANGED <<file0, calls, started, returned, initWrites, serial, plain>>

\* create(collection, data), up to the call of write(db): the read settles,
\* the item is built and appended to the in-memory document.
CreateRead(c, data, ioOk) ==
    /\ started < MaxCalls
    /\ ioOk \/ (file.k = "doc" /\ faults < MaxFaults)
    /\ started' = started + 1
    /\ faults' = IF ioOk THEN faults ELSE faults + 1
    /\ LET r == read(file, ioOk)
           db == readOrEmpty(r, file)
           id == nextId(GetColl(db, c))
           item == MakeItem(id, data)
       IN calls' = Append(calls,
            [kind |-> "create", coll |-> c, target |-> NoId, data |-> data,
             readOk |-> ~r.thrown, pre |-> file,
             rver |-> ver, nextId |-> id, item |-> item,
             db |-> Push(db, c, item), peer |-> NoPeer])
    /\ serial' = (serial /\ ~InFlight)
    /\ plain' = (plain /\ data.id = NoId)
    /\ got' = NoAnswer
    /\ UNCHANGED <<file, ver, file0, inits, returned, initWrites, last>>

\* A variant of CreateWrite that appends the item to the document the file
\* holds at the write, not to the one the create read.
CreateWriteMerging(i) ==
    /\ i \in 1..Len(calls)
    /\ calls[i].kind = "create"
    /\ file' = Push(readOrEmpty(read(file, TRUE), file), calls[i].coll,
                    calls[i].item)
    /\ ver' = ver + 1
    /\ calls' = Overtake(Remove(calls, i), calls[i])
    /\ returned' = [returned EXCEPT ![calls[i].coll] = @ + 1]
    /\ last' = Return("create", createStatus(TRUE), calls[i], TRUE, file, ver + 1)
    /\ got' = NoAnswer
    /\ UNCHANGED <<file0, inits, started, initWrites, serial, plain, faults>>
\* create: fs.writeFile completes and create returns the item, which the POST
\* handler sends with status 201.
CreateWrite(i) ==
    /\ i \in 1..Len(calls)
    /\ calls[i].kind = "create"
    /\ file' = calls[i].db
    /\ ver' = ver + 1
    /\ calls' = Overtake(Remove(calls, i), calls[i])
    /\ returned' = [returned EXCEPT ![calls[i].coll] = @ + 1]
    /\ last' = Return("create", createStatus(TRUE), calls[i], TRUE, file, ver + 1)
    /\ got' = NoAnswer
    /\ UNCHANGED <<file0, inits, started, initWrites, serial, plain, faults>>

\* create: fs.writeFile fails, create throws and the POST handler answers 500.
CreateWriteFail(i, opened) ==
    /\ i \in 1..Len(calls)
    /\ calls[i].kind = "create"
    /\ faults < MaxFaults
    /\ faults' = faults + 1
    /\ file' = AfterFailedWrite(file, opened)
    /\ ver' = IF opened THEN ver + 1 ELSE ver
    /\ calls' = Remove(calls, i)
    /\ returned' = IF createStatus(FALSE) = "ok"
                   THEN [returned EXCEPT ![calls[i].coll] = @ + 1] ELSE returned
    /\ last' = Return("create", createStatus(FALSE), calls[i], FALSE, file, ver')
    /\ got' = NoAnswer
    /\ UNCHANGED <<file0, inits, started, initWrites, serial, plain>>

\* GET /:collection: getAll(collection), one read and no write, and the
\* response with what it returned.
getAll(c, ioOk) ==
    /\ LET r == read(file, ioOk)
           res == getAllResult(r, c)
       IN got' = [op |-> "getAll", coll |-> c, target |-> NoId,
                  readOk |-> ~r.thrown, thrown |-> res.thrown,
                  items |-> res.items, pre |-> file, resp |-> getResponse(res)]
    /\ UNCHANGED <<file, ver, file0, calls, inits, started, returned,
                   initWrites, last, serial, plain, faults>>

\* ------------------------------------------------- getOne, update, delete
\* These three follow the documented behaviour of the store: getOne returns
\* the first item with the id; updateItem and deleteItem read the document,
\* return absent or false with no write when the id is not found, and
\* otherwise write the changed document; they never throw.
\* The ids asked for, and the patches: the empty patch, a patch of the field
\* a, and a patch that has an id field too (a = 0: no field a).
Targets == {Num(1), Num(2)}
Patches ==
    { [id |-> NoId, a |-> 0], [id |-> NoId, a |-> 2], [id |-> Num(2), a |-> 1] }

\* The position of the first item of the sequence with this id, 0 for none.
IndexOf(items, id) ==
    LET at == {k \in 1..Len(items) : items[k].id = id}
    IN IF at = {} THEN 0 ELSE CHOOSE k \in at : \A j \in at : k <= j

\* A variant of merge where the id of the patch replaces the item's.
mergeWithId(item, patch) ==
    [id |-> IF patch.id.t = "none" THEN item.id ELSE patch.id,
     a |-> IF patch.a = 0 THEN item.a ELSE patch.a]
\* The fields of the patch replace those of the item, the id excepted.
merge(item, patch) ==
    [id |-> item.id, a |-> IF patch.a = 0 THEN item.a ELSE patch.a]

\* The document with the k-th item of the collection replaced, or removed.
Replace(db, c, k, item) == Doc(db.keys, [db.d EXCEPT ![c][k] = item])
Without(db, c, k) == Doc(db.keys, [db.d EXCEPT ![c] = Remove(db.d[c], k)])

\* The start of updateItem or deleteItem: the read and the search.  A failed
\* read or an id that is not found ends the call with no write; otherwise
\* the call goes on to write the document doc.
EditRead(kind, c, id, patch, ioOk) ==
    /\ started < MaxCalls
    /\ ioOk \/ (file.k = "doc" /\ faults < MaxFaults)
    /\ started' = started + 1
    /\ faults' = IF ioOk THEN faults ELSE faults + 1
    /\ LET r == read(file, ioOk)
           items == IF r.thrown THEN <<>> ELSE GetColl(r.db, c)
           k == IndexOf(items, id)
           call == [NoCall EXCEPT !.kind = kind, !.coll = c, !.target = id,
                                  !.data = patch, !.readOk = ~r.thrown,
                                  !.pre = file, !.rver = ver]
       IN IF k = 0
          THEN /\ calls' = calls
               /\ last' = Return(kind, "absent", call, FALSE, file, ver)
          ELSE /\ calls' = Append(calls,
                     IF kind = "updateItem"
                     THEN [call EXCEPT !.item = merge(items[k], patch),
                             !.db = Replace(r.db, c, k, merge(items[k], patch))]
                     ELSE [call EXCEPT !.item = items[k],
                                       !.db = Without(r.db, c, k)])
               /\ last' = last
    /\ serial' = (serial /\ ~InFlight)
    /\ got' = NoAnswer
    /\ UNCHANGED <<file, ver, file0, inits, returned, initWrites, plain>>

\* updateItem(collection, id, patch): read, merge the patch onto the item.
UpdateRead(c, id, patch, ioOk) == EditRead("updateItem", c, id, patch, ioOk)

\* deleteItem(collection, id): read, remove the first item with the id.
DeleteRead(c, id, ioOk) == EditRead("deleteItem", c, id, NoCall.data, ioOk)

\* updateItem or deleteItem: the write completes; updateItem returns the
\* updated item and deleteItem true.
EditWrite(i) ==
    /\ i \in 1..Len(calls)
    /\ calls[i].kind \in {"updateItem", "deleteItem"}
    /\ file' = calls[i].db
    /\ ver' = ver + 1
    /\ calls' = Remove(calls, i)
    /\ last' = Return(calls[i].kind, "ok", calls[i], TRUE, file, ver + 1)
    /\ got' = NoAnswer
    /\ UNCHANGED <<file0, inits, started, returned, initWrites, serial, plain,
                   faults>>

\* updateItem or deleteItem: the write fails; updateItem returns absent and
\* deleteItem false.
EditWriteFail(i, opened) ==
    /\ i \in 1..Len(calls)
    /\ calls[i].kind \in {"updateItem", "deleteItem"}
    /\ faults < MaxFaults
    /\ faults' = faults + 1
    /\ file' = AfterFailedWrite(file, opened)
    /\ ver' = IF opened THEN ver + 1 ELSE ver
    /\ calls' = Remove(calls, i)
    /\ last' = Return(calls[i].kind, "absent", calls[i], FALSE, file, ver')
    /\ got' = NoAnswer
    /\ UNCHANGED <<file0, inits, started, returned, initWrites, serial, plain>>

\* getOne(collection, id): the first item with the id, absent when there is
\* none and when the read fails.
getOne(c, id, ioOk) ==
    /\ LET r == read(file, ioOk)
           items == IF r.thrown THEN <<>> ELSE GetColl(r.db, c)
           k == IndexOf(items, id)
       IN got' = [NoAnswer EXCEPT !.op = "getOne", !.coll = c, !.target = id,
                    !.readOk = ~r.thrown, !.pre = file,
                    !.items = IF k = 0 THEN <<>> ELSE <<items[k]>>]
    /\ UNCHANGED <<file, ver, file0, calls, inits, started, returned,
                   initWrites, last, serial, plain, faults>>

\* ------------------------------------------------------------ specification
\* A db.json edited by hand: ids out of order, an id that is a string and an
\* item without an id.
HandDoc ==
    Doc({"users"}, [NoItems EXCEPT !["users"] =
        <<[id |-> Num(3), a |-> 1], [id |-> Str, a |-> 2],
          [id |-> NoId, a |-> 2], [id |-> Num(1), a |-> 2]>>])

\* No file, a file that is not JSON, the file init writes, a file with items.
InitFiles == {Missing, Invalid, EmptyDoc, HandDoc}

Init ==
    /\ file \in InitFiles
    /\ file0 = file
    /\ ver = 0
    /\ calls = <<>>
    /\ inits = <<>>
    /\ started = 0
    /\ returned = [c \in Colls |-> 0]
    /\ initWrites = 0
    /\ last = NoReturn
    /\ got = NoAnswer
    /\ serial = TRUE
    /\ plain = TRUE
    /\ faults = 0

Next ==
    \/ InitAccess
    \/ \E i \in 1..Len(inits) : InitWrite(i)
    \/ \E i \in 1..Len(inits) : \E opened \in BOOLEAN : InitWriteFail(i, opened)
    \/ \E c \in Colls : \E data \in Payloads : \E ioOk \in BOOLEAN :
          CreateRead(c, data, ioOk)
    \/ \E i \in 1..Len(calls) : CreateWrite(i)
    \/ \E i \in 1..Len(calls) : \E opened \in BOOLEAN : CreateWriteFail(i, opened)
    \/ \E c \in Colls : \E ioOk \in BOOLEAN : getAll(c, ioOk)

Spec == Init /\ [][Next]_vars

\* The store with getOne, updateItem and deleteItem: creates, updates and
\* deletes in any interleaving, and getOne at any time.  Reads fail on a
\* file that is missing or is not JSON, and the writes of updates and
\* deletes can fail.
NextEdit ==
    \/ \E c \in Colls : \E data \in Payloads : CreateRead(c, data, TRUE)
    \/ \E i \in 1..Len(calls) : CreateWrite(i)
    \/ \E c \in Colls : \E id \in Targets : \E patch \in Patches :
          UpdateRead(c, id, patch, TRUE)
    \/ \E c \in Colls : \E id \in Targets : DeleteRead(c, id, TRUE)
    \/ \E i \in 1..Len(calls) : EditWrite(i)
    \/ \E i \in 1..Len(calls) : \E opened \in BOOLEAN : EditWriteFail(i, opened)
    \/ \E c \in Colls : \E id \in Targets : getOne(c, id, TRUE)

SpecEdit == Init /\ [][NextEdit]_vars

\* ------------------------------------------------------------------ claims
LastCreate == last.op = "create"
LastCreated == last.op = "create" /\ last.status = "ok"
LastColl == last.call.coll

\* No two items of the sequence have the same id.
DistinctIds(items) ==
    \A i, j \in 1..Len(items) : i # j => items[i].id # items[j].id
AllDistinct(f) == \A c \in Colls : DistinctIds(f.d[c])

\* The largest of a non-empty finite set of integers.
SetMax(S) == CHOOSE m \in S : \A x \in S : x <= m
NumericIds(items) ==
    {items[i].id.v : i \in {j \in 1..Len(items) : items[j].id.t = "num"}}

\* C1: starting from a document where collection C is absent or empty, the
\* k-th of a sequence of serialized creates into C, none of which met a
\* file-system error, returns an item whose id is k, whatever the payloads.
C1_SerialIdsCountUp ==
    (LastCreated /\ serial /\ faults = 0 /\ file0.k = "doc"
        /\ GetColl(file0, LastColl) = <<>>)
    => last.call.item.id = Num(returned[LastColl])

\* The same when no payload carries an id field (this one holds).
C1_SerialIdsCountUpWithoutPayloadId ==
    (LastCreated /\ serial /\ faults = 0 /\ plain /\ file0.k = "doc"
        /\ GetColl(file0, LastColl) = <<>>)
    => last.call.item.id = Num(returned[LastColl])

\* C2: the item create returns and stores has the freshly assigned id, also
\* when the payload has an id field of its own, and the payload's other
\* fields.
C2_PayloadIdOverwritten ==
    LastCreated =>
        /\ last.call.item.id = Num(last.call.nextId)
        /\ last.call.item.a = last.call.data.a
        /\ file.k = "doc"
        /\ LET items == GetColl(file, LastColl)
           IN Len(items) > 0 /\ items[Len(items)] = last.call.item

\* C3: when create's read succeeds, the id it assigns is 1 + the largest
\* numeric id among the items of the collection it read, 0 standing for an
\* item whose id is not a number and for a collection with no items.
AssignedFromMax(call) ==
    call.readOk =>
        call.nextId = 1 + SetMax(NumericIds(GetColl(call.pre, call.coll)) \cup {0})
C3_NextIdIsMaxPlusOne ==
    /\ \A i \in 1..Len(calls) : AssignedFromMax(calls[i])
    /\ LastCreate => AssignedFromMax(last.call)

\* A create that read the hand-edited users, whose largest id comes first and
\* which hold an item without id, and assigned 4.
C3_Witness ==
    /\ LastCreated /\ last.call.readOk
    /\ last.call.pre = HandDoc /\ LastColl = "users"
    /\ last.call.nextId = 4

\* C4: with serialized calls, a create that finds pairwise distinct ids in
\* every collection leaves pairwise distinct ids in every collection, and so
\* every document reached from the empty document has them.
C4_IdsStayUnique ==
    /\ (serial /\ LastCreated /\ AllDistinct(last.before)) => AllDistinct(file)
    /\ (serial /\ file0 = EmptyDoc) => AllDistinct(file)

\* C5: of two creates into one collection that both read the same document
\* before either wrote, both compute and return the same id, neither reports
\* an error, and once both have written the file is the later writer's
\* snapshot: what it read with its one item appended.
Overlapped ==
    /\ LastCreate /\ last.written
    /\ last.call.peer.set /\ last.call.peer.coll = LastColl
    /\ last.call.peer.readOk /\ last.call.readOk
LaterSnapshot ==
    /\ last.status = "ok"
    /\ last.call.peer.nextId = last.call.nextId
    /\ file = last.call.db
    /\ GetColl(file, LastColl) =
          Append(GetColl(last.call.pre, LastColl), last.call.item)
C5_OverlapSameIdLaterWins ==
    Overlapped => LaterSnapshot /\ last.call.peer.item.id = last.call.item.id

\* The same without the returned ids being equal (this one holds).
C5_OverlapLaterWins == Overlapped => LaterSnapshot

\* C6: the write of init never replaces a document that a create has written
\* (a document that has a collection), whatever the interleaving.
C6_InitNeverOverwrites ==
    (last.op = "init" /\ last.written)
    => ~(last.before.k = "doc" /\ last.before.keys # {})

\* C7: an init that finds a file returns without writing and leaves the file
\* as it is, whatever it holds; an init that finds none leaves the empty
\* mapping; and inits that do not overlap write at most once.
C7_InitIdempotent ==
    /\ (last.op = "init" /\ last.status = "ok") =>
          IF last.call.pre.k # "missing"
          THEN ~last.written /\ file = last.call.pre /\ ver = last.call.rver
          ELSE last.written /\ file = EmptyDoc
    /\ serial => initWrites <= 1

\* The second of two inits in a row: the first created the file and the
\* second found it and wrote nothing.
C7_Witness ==
    /\ serial /\ started = 2 /\ initWrites = 1
    /\ last.op = "init" /\ ~last.written
    /\ last.call.pre = EmptyDoc /\ file = EmptyDoc

\* C8: a create whose read fails does not fail: it goes on to its write with
\* id 1 and a document that holds the collection alone with the new item
\* alone, and this is the file once the write completes.
FromEmpty(call) ==
    ~call.readOk =>
        /\ call.nextId = 1
        /\ call.db = Doc({call.coll},
                         [NoItems EXCEPT ![call.coll] = <<call.item>>])
C8_ReadFailureStartsFromEmpty ==
    /\ \A i \in 1..Len(calls) : FromEmpty(calls[i])
    /\ LastCreate => FromEmpty(last.call)
    /\ (LastCreated /\ ~last.call.readOk) => file = last.call.db

\* A create into posts could not read a file that held users; it returned
\* its item, and users are gone from the file.
C8_Witness ==
    /\ LastCreated /\ ~last.call.readOk
    /\ last.call.pre = HandDoc /\ last.before = HandDoc
    /\ LastColl = "posts" /\ file.keys = {"posts"}

C10_GetAllFailsSoft ==
    got.op = "getAll" =>
        /\ ~got.thrown
        /\ got.items = IF got.readOk /\ file.k = "doc" /\ got.coll \in file.keys
                       THEN file.d[got.coll] ELSE <<>>
        /\ got.readOk => file.k = "doc"
        /\ file.k # "doc" => ~got.readOk

\* getAll of a collection that has items, while the file could not be read.
C10_Witness ==
    /\ got.op = "getAll" /\ ~got.readOk /\ got.items = <<>>
    /\ got.coll = "users" /\ file = HandDoc

\* C11: after n serialized creates into collection C of an empty document,
\* none of which met a file-system error, a getAll of C that reads the file
\* answers exactly the n items the creates returned, in the order of the
\* creates, the k-th with the id k assigned to it and with the fields of its
\* payload.
AfterSerialCreates ==
    /\ got.op = "getAll" /\ got.readOk
    /\ serial /\ faults = 0 /\ file0 = EmptyDoc
ListsTheCreated ==
    LET n == returned[got.coll]
    IN /\ Len(got.items) = n
       /\ (LastCreated /\ LastColl = got.coll) =>
             /\ last.call.item.a = last.call.data.a
             /\ got.items = Append(GetColl(last.call.pre, got.coll), last.call.item)
WithAssignedIds == \A k \in 1..Len(got.items) : got.items[k].id = Num(k)
C11_GetAllListsSerialCreates ==
    AfterSerialCreates => ListsTheCreated /\ WithAssignedIds

\* The same when no payload carries an id field (this one holds).
C11_GetAllListsSerialCreatesWithoutPayloadId ==
    (AfterSerialCreates /\ plain) => ListsTheCreated /\ WithAssignedIds

\* The items are those the creates returned, in order, whatever the payloads
\* (this one holds).
C11_GetAllListsReturnedItems == AfterSerialCreates => ListsTheCreated

\* create(users, {a:1}), create(users, {a:2}), getAll(users).
C11_Example ==
    /\ AfterSerialCreates /\ got.coll = "users"
    /\ got.items = <<[id |-> Num(1), a |-> 1], [id |-> Num(2), a |-> 2]>>

\* C12: a collection the document lacks comes into it by a write alone.  A
\* getAll of such a collection answers the empty sequence, and the file after
\* it is the file before it, still without the collection; the create of the
\* first item of such a collection, once written, leaves the collection in the
\* document with that item alone.
C12_CollectionMaterializedByWrite ==
    /\ (got.op = "getAll" /\ got.readOk /\ got.coll \notin got.pre.keys) =>
          /\ got.items = <<>>
          /\ file = got.pre
          /\ got.coll \notin file.keys
    /\ (LastCreated /\ last.call.readOk /\ LastColl \notin last.call.pre.keys) =>
          /\ file.k = "doc"
          /\ LastColl \in file.keys
          /\ file.d[LastColl] = <<last.call.item>>

\* users came into the empty document with the create of the first user, and
\* a getAll of posts then answered [] and left posts out of the document.
C12_Witness ==
    /\ LastCreated /\ last.call.readOk /\ LastColl = "users"
    /\ last.call.pre = EmptyDoc /\ Len(file.d["users"]) = 1
    /\ got.op = "getAll" /\ got.readOk /\ got.coll = "posts"
    /\ got.items = <<>> /\ file.keys = {"users"}

\* C13: POST /:collection answers 201 with the keys message and data, data
\* being the item create returned, exactly when create completed its write,
\* and 500 with the key error exactly when create threw; GET /:collection
\* answers 200 with the array getAll returned, the empty array when the file
\* is missing or is not readable, and never another status.
C13_RouterMapsOutcomes ==
    /\ LastCreate =>
          /\ last.resp.code \in {201, 500}
          /\ (last.resp.code = 201) <=> last.written
          /\ (last.resp.code = 500) <=> (last.status = "error")
          /\ last.written =>
                /\ last.resp.keys = {"message", "data"}
                /\ last.resp.data = last.call.item
          /\ ~last.written => last.resp.keys = {"error"}
    /\ got.op = "getAll" =>
          /\ got.resp.code = 200
          /\ got.resp.items = got.items
          /\ file.k # "doc" => got.resp.items = <<>>

\* A POST was answered 500 after the write of its create failed, and a GET of
\* the file this left, which is not JSON, was answered 200 with [].
C13_Witness ==
    /\ LastCreate /\ ~last.written /\ last.resp.code = 500
    /\ got.op = "getAll" /\ file = Invalid
    /\ got.resp.code = 200 /\ got.resp.items = <<>>

\* C16: from a document with pairwise distinct ids in each collection, and
\* with payloads that have no id field, every file that the reads and writes
\* of creates leave, however they interleave, has pairwise distinct ids in
\* each collection.
C16_DistinctIdsUnderConcurrency ==
    (plain /\ AllDistinct(file0)) => AllDistinct(file)

\* Two overlapping creates into the hand-edited users returned the same id,
\* and the file, written by both, holds that id once.
C16_Witness ==
    /\ plain /\ file0 = HandDoc /\ LastCreated /\ LastColl = "users"
    /\ last.call.peer.set /\ last.call.peer.coll = "users"
    /\ last.call.peer.item.id = last.call.item.id
    /\ Len(file.d["users"]) = 5 /\ AllDistinct(file)

\* C17: a serialized create whose read succeeded writes the document it read
\* with one change: its item is appended to its collection after the items
\* that were there, which keep their values and order; the other collections
\* are as they were, and no other key comes or goes.
C17_CreateChangesOnlyItsCollection ==
    (serial /\ LastCreated /\ last.call.readOk) =>
        /\ last.before = last.call.pre
        /\ file.k = "doc"
        /\ file.keys = last.call.pre.keys \cup {LastColl}
        /\ \A c \in Colls \ {LastColl} : file.d[c] = last.call.pre.d[c]
        /\ file.d[LastColl] =
              Append(GetColl(last.call.pre, LastColl), last.call.item)

\* The second post was created in a document that held users and a post.
C17_Witness ==
    /\ serial /\ LastCreated /\ last.call.readOk /\ LastColl = "posts"
    /\ Len(last.call.pre.d["posts"]) = 1 /\ Len(file.d["posts"]) = 2
    /\ last.call.pre.d["users"] = HandDoc.d["users"]
    /\ file.d["users"] = HandDoc.d["users"]

\* C18: of two creates into different collections that both read the same
\* document before either wrote, both return an item without error, and once
\* both have written the file is the later writer's snapshot: its collection
\* has its item appended, and the earlier writer's collection is as the two
\* had read it, without the earlier writer's item and absent if it was absent.
OverlappedAcross ==
    /\ LastCreate /\ last.written
    /\ last.call.peer.set /\ last.call.peer.coll # LastColl
    /\ last.call.peer.readOk /\ last.call.readOk
C18_OverlapAcrossCollectionsLosesUpdate ==
    OverlappedAcross =>
        /\ last.status = "ok" /\ last.resp.code = 201
        /\ file = last.call.db
        /\ file.d[LastColl] =
              Append(GetColl(last.call.pre, LastColl), last.call.item)
        /\ file.d[last.call.peer.coll] = last.call.pre.d[last.call.peer.coll]
        /\ (last.call.peer.coll \in file.keys)
              <=> (last.call.peer.coll \in last.call.pre.keys)

\* create(users) and create(posts) both read the empty document; users was
\* written first, then posts, and the file holds the post alone.
C18_Witness ==
    /\ OverlappedAcross /\ last.call.pre = EmptyDoc
    /\ LastColl = "posts" /\ last.call.peer.coll = "users"
    /\ last.call.peer.item.id = Num(1)
    /\ file.keys = {"posts"} /\ Len(file.d["posts"]) = 1

\* C19: in every document reached from the empty document by creates whose
\* payloads have no id field, however they interleave, the ids of each
\* collection are numbers that increase strictly with the position, and the
\* rule of the other revision, the last item's id + 1, gives the id that
\* 1 + the largest numeric id gives: for the next create into any collection
\* of the file, and for every create made on the document it read.
StrictlyIncreasing(items) ==
    \A i, j \in 1..Len(items) :
        /\ items[i].id.t = "num"
        /\ i < j => items[i].id.v < items[j].id.v
RulesAgreeOn(items) == nextIdOther(items) = Num(nextId(items))
RulesAgreeFor(call) ==
    call.readOk => nextIdOther(GetColl(call.pre, call.coll)) = Num(call.nextId)
C19_RevisionsAgreeOnIds ==
    (plain /\ file0 = EmptyDoc) =>
        /\ \A c \in Colls : StrictlyIncreasing(file.d[c]) /\ RulesAgreeOn(file.d[c])
        /\ \A i \in 1..Len(calls) : RulesAgreeFor(calls[i])
        /\ LastCreate => RulesAgreeFor(last.call)

\* The second create into users: both rules give 2.
C19_Witness ==
    /\ plain /\ file0 = EmptyDoc /\ LastCreated /\ last.call.readOk
    /\ LastColl = "users" /\ Len(last.call.pre.d["users"]) = 1
    /\ nextIdOther(last.call.pre.d["users"]) = Num(2) /\ last.call.nextId = 2
    /\ Len(file.d["users"]) = 2

\* ------------------------------------ claims on getOne, update and delete
LastUpdated == last.op = "updateItem" /\ last.status = "ok"
LastDeleted == last.op = "deleteItem" /\ last.status = "ok"
EmptyPatch == [id |-> NoId, a |-> 0]
Ids(items) == [k \in 1..Len(items) |-> items[k].id]
\* The item of last's collection that last's call was to update or delete.
Sought ==
    LET items == GetColl(last.call.pre, LastColl)
    IN items[IndexOf(items, last.call.target)]

C14_WitnessRoundTrip ==
    /\ LastUpdated /\ serial /\ file0 = EmptyDoc /\ returned["users"] = 1
    /\ last.call.data = EmptyPatch /\ LastColl = "users"
    /\ last.call.item = [id |-> Num(1), a |-> 2]
    /\ file.d["users"] = <<last.call.item>>

\* C15: a getOne of the id of the latest deleteItem that returned true, on
\* the file its write left, answers absent; and a deleteItem that read the
\* document and did not find the id returned false with no write, the file
\* being the document it read.
GetOneAfterDelete ==
    /\ LastDeleted /\ got.op = "getOne" /\ got.readOk
    /\ got.coll = LastColl /\ got.target = last.call.target
DeleteOfMissing ==
    /\ last.op = "deleteItem" /\ last.call.readOk
    /\ IndexOf(GetColl(last.call.pre, LastColl), last.call.target) = 0
LeavesDocument ==
    /\ last.status = "absent" /\ ~last.written
    /\ file = last.call.pre /\ ver = last.call.rver
C15_DeleteThenGetOneAbsent ==
    /\ GetOneAfterDelete => got.items = <<>>
    /\ DeleteOfMissing => LeavesDocument

\* The same for documents whose ids are distinct: the one the store started
\* with had distinct ids and no create was given a payload with an id field
\* (this one holds).
C15_DeleteThenGetOneAbsentWithDistinctIds ==
    /\ (GetOneAfterDelete /\ plain /\ AllDistinct(file0)) => got.items = <<>>
    /\ DeleteOfMissing => LeavesDocument

\* Item 1 of users was deleted from the hand-edited document and a getOne of
\* it answered absent.
C15_Reached ==
    /\ GetOneAfterDelete /\ last.call.pre = HandDoc /\ got.items = <<>>
    /\ Len(file.d["users"]) = 3

====
